---- MODULE Spec2Model ----
(***************************************************************************)
(* A model of phabricator.py: the cached Conduit client (request), the two *)
(* paginators built on it (feed, comments) and the remote service they     *)
(* talk to.  The remote service and the HTTP transport are the environment:*)
(* each POST is answered by a response drawn from a bounded set.           *)
(***************************************************************************)
EXTENDS Integers, Sequences, FiniteSets, TLC

VARIABLES
    TOKEN,      \* the credential read from the environment at start-up
    cache,      \* the cache directory: file name (digest) -> raw response bytes
    call,       \* the last call of request: its arguments and its outcome
    posted,     \* per request, the cache file and result of each successful POST
    fpc,        \* feed: "idle", "loop" (in the while loop), "done", "failed"
    key,        \* feed: the cursor sent as "after"
    fetched,    \* feed: the pages received in this enumeration, with their cursor
    out,        \* feed: the stories yielded in this enumeration
    cpc,        \* comments: "idle", "loop" (in the while loop), "done", "failed"
    object_phid,\* comments: the object whose transactions are searched
    author_phid,\* comments: the author whose comments are wanted
    after,      \* comments: the cursor sent as "after"
    searched,   \* comments: the pages received in this enumeration
    emitted,    \* comments: the comments yielded in this enumeration
    text,       \* parse_comment: the comment text, as its words
    parsed,     \* parse_comment: how the call ended and what it returned
    dpc,        \* script: "idle", "feed", "comments", "done", "failed"
    objects,    \* script: the set of objects collected from the feed
    started,    \* script: the objects whose comments were asked for, in order
    rows,       \* script: the rows written to stats.csv after the header
    previous,   \* how the enumerations ended that were run again from scratch
    disk,       \* two processes: the chunks of the cache file, or Absent
    ppc         \* two processes: where each is in request, and what it wrote

reqvars == <<TOKEN, cache, call, posted>>
feedvars == <<fpc, key, fetched, out>>
commvars == <<cpc, object_phid, author_phid, after, searched, emitted>>
parsevars == <<text, parsed>>
\* What the request layer and the paginators leave alone.
mainvars == <<dpc, objects, started, rows>>
racevars == <<disk, ppc>>
outervars == <<parsevars, mainvars, previous, racevars>>
vars == <<TOKEN, cache, call, posted, fpc, key, fetched, out,
          cpc, object_phid, author_phid, after, searched, emitted,
          text, parsed, dpc, objects, started, rows, previous, disk, ppc>>

----------------------------------------------------------------------------
(* Bounds *)

\* chronological keys of feed stories are 1..MaxKey
MaxKey == 2

\* the cursors the service hands out with a page of transactions are
\* 1..MaxAfter
MaxAfter == 1

\* a comment text is made of up to MaxSegments segments
MaxSegments == 4

\* a response body reaches the cache file in MaxChunks writes
MaxChunks == 2

----------------------------------------------------------------------------
(* Values *)

\* Python's None, as a cursor and as the "after" of a last page; real cursors
\* and chronological keys are positive.
None == 0

BASE_URL == "https://phabricator.services.mozilla.com/api/"

\* A credential: its first four characters and the rest.
Tokens ==
    { [prefix |-> "api-", secret |-> "a"],
      [prefix |-> "api-", secret |-> "b"],
      [prefix |-> "cli-", secret |-> "a"] }

\* TOKEN.startswith('api-')
TokenOk(t) == t.prefix = "api-"

Bot == "PHID-USER-bot"
ObjectOrder == <<"PHID-DREV-a", "PHID-DREV-b">>
Objects == {ObjectOrder[i] : i \in DOMAIN ObjectOrder}

----------------------------------------------------------------------------
(* Parameters and the request hash *)

\* A dict of keyword arguments is the sequence of its <<name, value>> items in
\* insertion order.
Names(params) == {params[i][1] : i \in DOMAIN params}

\* params[name] = value: an existing item keeps its place, a new one goes
\* last.
SetItem(params, name, value) ==
    IF name \in Names(params)
    THEN [i \in DOMAIN params |->
            IF params[i][1] = name THEN <<name, value>> ELSE params[i]]
    ELSE Append(params, <<name, value>>)

\* params['__conduit__'] = {'token': TOKEN}
WithConduit(params, token) == SetItem(params, "__conduit__", [token |-> token])

\* The order of the parameter names as strings ('_' sorts before the letters).
KeyRank(name) ==
    CASE name = "__conduit__" -> 0
      [] name = "after" -> 1
      [] name = "filterPHIDs" -> 2
      [] name = "objectIdentifier" -> 3

RECURSIVE InsertItem(_, _)
InsertItem(sorted, item) ==
    IF sorted = <<>> THEN <<item>>
    ELSE IF KeyRank(item[1]) < KeyRank(Head(sorted)[1])
         THEN <<item>> \o sorted
         ELSE <<Head(sorted)>> \o InsertItem(Tail(sorted), item)

RECURSIVE SortKeys(_)
SortKeys(params) ==
    IF params = <<>> THEN <<>>
    ELSE InsertItem(SortKeys(Tail(params)), Head(params))

\* json.dumps that leaves the items in insertion order.
JsonDumps_unsorted(params, sort_keys) == params

\* json.dumps(params, sort_keys=...): the items in the order they are written.
JsonDumps(params, sort_keys) == IF sort_keys THEN SortKeys(params) ELSE params

\* payload = url + json.dumps(params, sort_keys=True)
Payload(method, params) ==
    [url |-> <<BASE_URL, method>>, json |-> JsonDumps(params, TRUE)]

\* hashlib.md5(...).hexdigest(): a digest, taken to be free of collisions on
\* the payloads of the model.
Md5(payload) == [md5 |-> payload]

\* The cache file of a call, params holding the credential envelope.
CachePath(method, params) == Md5(Payload(method, params))

\* The request a call stands for: endpoint, parameter values by name, token.
Logical(method, params, token) ==
    [method |-> method,
     values |-> {params[i] : i \in DOMAIN params},
     token  |-> token]

----------------------------------------------------------------------------
(* Responses *)

\* The decoded envelope of a response.
Envelope(code, data, cursor) ==
    [error_code |-> code, result |-> [data |-> data, cursor |-> [after |-> cursor]]]

\* The raw body of a response and what json decodes from it.
Bytes(envelope) == [bytes |-> envelope]
JsonLoads(content) == content.bytes

\* What a call that raised returns: nothing.
NoResult == Envelope("raised", <<>>, None)

----------------------------------------------------------------------------
(* request *)

\* What the transport hands back for a POST, and the lack of one.
NoResponse == [status |-> "none", content |-> Bytes(NoResult)]

\* request that looks for the cache file before it checks the credential.
request_lookupfirst(c, token, method, params, resp) ==
    LET h == CachePath(method, WithConduit(params, token))
    IN  IF h \in DOMAIN c
        THEN [kind |-> "hit", ret |-> JsonLoads(c[h]), cache |-> c, posts |-> 0]
        ELSE IF ~TokenOk(token)
        THEN [kind |-> "bad_token", ret |-> NoResult, cache |-> c, posts |-> 0]
        ELSE IF resp.status # "ok"
        THEN [kind |-> "http_error", ret |-> NoResult, cache |-> c, posts |-> 1]
        ELSE IF JsonLoads(resp.content).error_code # "null"
        THEN [kind |-> "remote_error", ret |-> NoResult,
              cache |-> c, posts |-> 1]
        ELSE [kind |-> "fetched", ret |-> JsonLoads(resp.content),
              cache |-> (h :> resp.content) @@ c, posts |-> 1]

\* request that does not save a response without data.
request_noempty(c, token, method, params, resp) ==
    IF ~TokenOk(token)
    THEN [kind |-> "bad_token", ret |-> NoResult, cache |-> c, posts |-> 0]
    ELSE LET h == CachePath(method, WithConduit(params, token))
         IN  IF h \in DOMAIN c
             THEN [kind |-> "hit", ret |-> JsonLoads(c[h]),
                   cache |-> c, posts |-> 0]
             ELSE IF resp.status # "ok"
             THEN [kind |-> "http_error", ret |-> NoResult,
                   cache |-> c, posts |-> 1]
             ELSE IF JsonLoads(resp.content).error_code # "null"
             THEN [kind |-> "remote_error", ret |-> NoResult,
                   cache |-> c, posts |-> 1]
             ELSE [kind |-> "fetched", ret |-> JsonLoads(resp.content),
                   cache |-> IF JsonLoads(resp.content).result.data = <<>>
                             THEN c ELSE (h :> resp.content) @@ c,
                   posts |-> 1]

\* request with the cache file read but the service asked all the same.
request_refetch(c, token, method, params, resp) ==
    IF ~TokenOk(token)
    THEN [kind |-> "bad_token", ret |-> NoResult, cache |-> c, posts |-> 0]
    ELSE IF resp.status = "ok" /\ JsonLoads(resp.content).error_code = "null"
         THEN [kind |-> IF CachePath(method, WithConduit(params, token))
                              \in DOMAIN c THEN "hit" ELSE "fetched",
               ret |-> JsonLoads(resp.content),
               cache |-> c @@ (CachePath(method, WithConduit(params, token))
                                 :> resp.content),
               posts |-> 1]
         ELSE [kind |-> "http_error", ret |-> NoResult, cache |-> c, posts |-> 1]

\* request without the check of the envelope's error code.
request_nocheck(c, token, method, params, resp) ==
    IF ~TokenOk(token)
    THEN [kind |-> "bad_token", ret |-> NoResult, cache |-> c, posts |-> 0]
    ELSE LET h == CachePath(method, WithConduit(params, token))
         IN  IF h \in DOMAIN c
             THEN [kind |-> "hit", ret |-> JsonLoads(c[h]),
                   cache |-> c, posts |-> 0]
             ELSE IF resp.status # "ok"
             THEN [kind |-> "http_error", ret |-> NoResult,
                   cache |-> c, posts |-> 1]
             ELSE [kind |-> "fetched", ret |-> JsonLoads(resp.content),
                   cache |-> (h :> resp.content) @@ c, posts |-> 1]

\* request that returns a fresh result without saving it.
request_nostore(c, token, method, params, resp) ==
    IF ~TokenOk(token)
    THEN [kind |-> "bad_token", ret |-> NoResult, cache |-> c, posts |-> 0]
    ELSE LET h == CachePath(method, WithConduit(params, token))
         IN  IF h \in DOMAIN c
             THEN [kind |-> "hit", ret |-> JsonLoads(c[h]),
                   cache |-> c, posts |-> 0]
             ELSE IF resp.status # "ok"
             THEN [kind |-> "http_error", ret |-> NoResult,
                   cache |-> c, posts |-> 1]
             ELSE IF JsonLoads(resp.content).error_code # "null"
             THEN [kind |-> "remote_error", ret |-> NoResult,
                   cache |-> c, posts |-> 1]
             ELSE [kind |-> "fetched", ret |-> JsonLoads(resp.content),
                   cache |-> c, posts |-> 1]

\* request without the test for the cache file: every call fetches and saves.
request_overwrite(c, token, method, params, resp) ==
    IF ~TokenOk(token)
    THEN [kind |-> "bad_token", ret |-> NoResult, cache |-> c, posts |-> 0]
    ELSE LET h == CachePath(method, WithConduit(params, token))
         IN  IF resp.status # "ok"
             THEN [kind |-> "http_error", ret |-> NoResult,
                   cache |-> c, posts |-> 1]
             ELSE IF JsonLoads(resp.content).error_code # "null"
             THEN [kind |-> "remote_error", ret |-> NoResult,
                   cache |-> c, posts |-> 1]
             ELSE [kind |-> "fetched", ret |-> JsonLoads(resp.content),
                   cache |-> (h :> resp.content) @@ c, posts |-> 1]

\* The outcome of request(method, **params) run with credential token on cache
\* directory c, when the service would answer a POST with resp: how the call
\* ended, what it returned, the cache directory it leaves and the POSTs made.
request(c, token, method, params, resp) ==
    IF ~TokenOk(token)
    THEN [kind |-> "bad_token", ret |-> NoResult, cache |-> c, posts |-> 0]
    ELSE LET p == WithConduit(params, token)
             h == CachePath(method, p)
         IN  IF h \in DOMAIN c
             THEN [kind |-> "hit", ret |-> JsonLoads(c[h]),
                   cache |-> c, posts |-> 0]
             ELSE IF resp.status # "ok"
             THEN [kind |-> "http_error", ret |-> NoResult,
                   cache |-> c, posts |-> 1]
             ELSE IF JsonLoads(resp.content).error_code # "null"
             THEN [kind |-> "remote_error", ret |-> NoResult,
                   cache |-> c, posts |-> 1]
             ELSE [kind |-> "fetched", ret |-> JsonLoads(resp.content),
                   cache |-> (h :> resp.content) @@ c, posts |-> 1]

\* The record kept of a call and of its outcome o: the arguments, how it
\* ended, what it returned, and what the transport answered to its POST.
CallRecord(token, method, params, o, resp) ==
    [method |-> method, params |-> params, token |-> token,
     kind |-> o.kind, ret |-> o.ret, posts |-> o.posts,
     resp |-> IF o.posts > 0 THEN resp ELSE NoResponse]

\* The successful POSTs so far after a call with outcome o: per request, the
\* cache file the call named and the result it decoded.
Posted(token, method, params, o) ==
    IF o.posts > 0 /\ o.kind \in {"fetched", "hit"}
    THEN LET r == Logical(method, params, token)
             was == IF r \in DOMAIN posted THEN posted[r] ELSE <<>>
             rec == [path |-> CachePath(method, WithConduit(params, token)),
                     ret  |-> o.ret]
         IN  (r :> Append(was, rec)) @@ posted
    ELSE posted

\* One call of request, the service answering from responses.
Call(method, params, responses) ==
    \E resp \in responses :
        \E o \in {request(cache, TOKEN, method, params, resp)} :
            /\ cache' = o.cache
            /\ call' = CallRecord(TOKEN, method, params, o, resp)
            /\ posted' = Posted(TOKEN, method, params, o)
            /\ UNCHANGED TOKEN

----------------------------------------------------------------------------
(* The callers of request and the service's answers *)

\* request('feed.query', filterPHIDs=[user_phid, ], after=key)
FeedParams(user, cursor) == << <<"filterPHIDs", <<user>> >>, <<"after", cursor>> >>

\* request('transaction.search', objectIdentifier=object_phid, after=after)
SearchParams(object, cursor) ==
    << <<"objectIdentifier", object>>, <<"after", cursor>> >>

Reverse(s) == [i \in DOMAIN s |-> s[Len(s) + 1 - i]]

\* A feed story: its chronological key and the object of its payload.  One
\* story on the first object for every key, and one story on the second
\* object that shares the oldest key.
Stories ==
    {[chronologicalKey |-> k, objectPHID |-> ObjectOrder[1]] : k \in 1..MaxKey}
    \cup {[chronologicalKey |-> 1, objectPHID |-> ObjectOrder[2]]}

\* Direct calls of request: the feed's first two pages, and the other
\* endpoint with the first page's arguments; the keyword arguments in either
\* order.
DirectCalls ==
    LET cs == {[method |-> "feed.query", params |-> FeedParams(Bot, k)] :
                  k \in {None, 1}}
              \cup {[method |-> "transaction.search",
                     params |-> FeedParams(Bot, None)]}
    IN  cs \cup {[method |-> c.method, params |-> Reverse(c.params)] : c \in cs}

\* The answers to a direct call: a transport failure, an error reported by
\* the service, an empty result, a result of one story.
DirectResponses ==
    { [status |-> "error", content |-> Bytes(Envelope("null", <<>>, None))],
      [status |-> "ok",
       content |-> Bytes(Envelope("ERR-CONDUIT-CORE", <<>>, None))],
      [status |-> "ok", content |-> Bytes(Envelope("null", <<>>, None))],
      [status |-> "ok",
       content |-> Bytes(Envelope("null",
                    <<[chronologicalKey |-> 1, objectPHID |-> "PHID-DREV-a"]>>,
                    None))] }

\* A call of request from outside the paginators.
Request ==
    /\ \E c \in DirectCalls : Call(c.method, c.params, DirectResponses)
    /\ UNCHANGED <<feedvars, commvars, outervars>>

\* The program is started again with another credential in its environment;
\* the cache directory stays.
Restart ==
    /\ \E t \in Tokens : t # TOKEN /\ TOKEN' = t
    /\ UNCHANGED <<cache, call, posted, feedvars, commvars, outervars>>

\* The processes that share the cache directory, and a cache file that does
\* not exist.
Procs == {1, 2}
Absent == {0}

\* No call of parse_comment has been made.
NotParsed == [status |-> "none", out |-> [k \in {} |-> 0]]

----------------------------------------------------------------------------

\* The module has been loaded: the credential is read, the cache directory is
\* as the first run finds it, no function has been called.
Loaded ==
    /\ TOKEN \in Tokens
    /\ cache = <<>>
    /\ call = CallRecord(TOKEN, "none", <<>>,
                         [kind |-> "none", ret |-> NoResult, posts |-> 0],
                         NoResponse)
    /\ posted = <<>>
    /\ fpc = "idle"
    /\ key = None
    /\ fetched = <<>>
    /\ out = <<>>
    /\ cpc = "idle"
    /\ object_phid = "none"
    /\ author_phid = "none"
    /\ after = None
    /\ searched = <<>>
    /\ emitted = <<>>
    /\ dpc = "idle"
    /\ objects = {}
    /\ started = <<>>
    /\ rows = <<>>
    /\ previous = [feed |-> [pc |-> "idle", out |-> <<>>],
                   comments |-> [pc |-> "idle", object |-> "none",
                                 author |-> "none", emitted |-> <<>>]]
    /\ disk = Absent
    /\ ppc = [p \in Procs |-> [at |-> "off", written |-> 0]]

Init ==
    /\ Loaded
    /\ text = <<>>
    /\ parsed = NotParsed

NextRequest == Request \/ Restart

SpecRequest == Init /\ [][NextRequest]_vars

----------------------------------------------------------------------------
(* request on a cache directory that holds a file from elsewhere *)

\* The first page of the feed is asked for, the keyword arguments in either
\* order.
FirstPageRequest ==
    /\ \E params \in {FeedParams(Bot, None), Reverse(FeedParams(Bot, None))} :
          Call("feed.query", params, DirectResponses)
    /\ UNCHANGED <<feedvars, commvars, outervars>>

\* Something other than this program puts a file into the cache directory,
\* under the name the first page has for one of the credentials.
Plant ==
    /\ \E t \in Tokens : \E resp \in DirectResponses :
          \E h \in {CachePath("feed.query",
                              WithConduit(FeedParams(Bot, None), t))} :
              /\ h \notin DOMAIN cache
              /\ resp.status = "ok"
              /\ JsonLoads(resp.content).error_code = "null"
              /\ cache' = (h :> resp.content) @@ cache
    /\ UNCHANGED <<TOKEN, call, posted, feedvars, commvars, outervars>>

NextPlanted == FirstPageRequest \/ Restart \/ Plant

SpecPlanted == Init /\ [][NextPlanted]_vars

----------------------------------------------------------------------------
(* feed *)

\* The loop of feed is followed for at most MaxFetch pages of one enumeration.
MaxFetch == MaxKey + 1

\* The number of stories the service puts on a page.
PageLimit == Cardinality(Objects)

\* The identifiers that start with 'PHID-USER'.
UserPHIDs == {Bot}

\* The order in which the service lists stories: newest first, stories of
\* equal key in the order of ObjectOrder.
Newer(s, t) ==
    \/ s.chronologicalKey > t.chronologicalKey
    \/ /\ s.chronologicalKey = t.chronologicalKey
       /\ \E i, j \in DOMAIN ObjectOrder :
             /\ ObjectOrder[i] = s.objectPHID
             /\ ObjectOrder[j] = t.objectPHID
             /\ i <= j

RECURSIVE NewestFirst(_)
NewestFirst(S) ==
    IF S = {} THEN <<>>
    ELSE LET s == CHOOSE x \in S : \A y \in S : Newer(x, y)
         IN  <<s>> \o NewestFirst(S \ {s})

\* The pages the service may answer feed.query with: any stories, at most
\* PageLimit of them, listed newest first.
FeedPages ==
    {NewestFirst(S) : S \in {T \in SUBSET Stories : Cardinality(T) <= PageLimit}}

\* The answers to feed.query: a transport failure, an error reported by the
\* service, or a page.
FeedResponses ==
    { [status |-> "error", content |-> Bytes(Envelope("null", <<>>, None))],
      [status |-> "ok",
       content |-> Bytes(Envelope("ERR-CONDUIT-CORE", <<>>, None))] }
    \cup
    { [status |-> "ok", content |-> Bytes(Envelope("null", q, None))] :
        q \in FeedPages }

\* sorted(results.values(), key=lambda x: x['chronologicalKey']): a stable
\* sort, stories of equal key keep the order of the mapping.
RECURSIVE InsertStory(_, _)
InsertStory(sorted, story) ==
    IF sorted = <<>> THEN <<story>>
    ELSE IF story.chronologicalKey < Head(sorted).chronologicalKey
         THEN <<story>> \o sorted
         ELSE <<Head(sorted)>> \o InsertStory(Tail(sorted), story)

\* The page taken in the order of the mapping, unsorted.
SortedByKey_unsorted(results) == results

RECURSIVE SortedByKey(_)
SortedByKey(results) ==
    IF results = <<>> THEN <<>>
    ELSE InsertStory(SortedByKey(SubSeq(results, 1, Len(results) - 1)),
                     results[Len(results)])

\* feed(user_phid) is called and runs up to its loop.
StartFeed ==
    /\ fpc # "loop"
    /\ \E user_phid \in UserPHIDs \cup Objects :
          fpc' = IF user_phid \in UserPHIDs THEN "loop" ELSE "failed"
    /\ key' = None
    /\ fetched' = <<>>
    /\ out' = <<>>
    /\ UNCHANGED <<reqvars, commvars, outervars>>

\* A turn that takes the last (largest) key of the sorted page as the cursor.
FeedTurn_last(o) ==
    IF o.kind \notin {"hit", "fetched"}
    THEN /\ fpc' = "failed"
         /\ UNCHANGED <<key, fetched, out>>
    ELSE \E results \in {o.ret.result.data} :
         \E sorted \in {SortedByKey(results)} :
             /\ fetched' = Append(fetched, [after |-> key, results |-> results])
             /\ IF results = <<>>
                THEN /\ fpc' = "done"
                     /\ UNCHANGED <<key, out>>
                ELSE /\ fpc' = "loop"
                     /\ out' = out \o sorted
                     /\ key' = sorted[Len(sorted)].chronologicalKey

\* A turn that goes on after an empty page.
FeedTurn_nobreak(o) ==
    IF o.kind \notin {"hit", "fetched"}
    THEN /\ fpc' = "failed"
         /\ UNCHANGED <<key, fetched, out>>
    ELSE \E results \in {o.ret.result.data} :
         \E sorted \in {SortedByKey(results)} :
             /\ fetched' = Append(fetched, [after |-> key, results |-> results])
             /\ fpc' = "loop"
             /\ out' = out \o sorted
             /\ key' = IF sorted = <<>> THEN key ELSE sorted[1].chronologicalKey

\* What one turn of the loop does with the outcome o of its request.
FeedTurn(o) ==
    IF o.kind \notin {"hit", "fetched"}
    THEN /\ fpc' = "failed"
         /\ UNCHANGED <<key, fetched, out>>
    ELSE \E results \in {o.ret.result.data} :
         \E sorted \in {SortedByKey(results)} :
             /\ fetched' = Append(fetched, [after |-> key, results |-> results])
             /\ IF results = <<>>
                THEN /\ fpc' = "done"
                     /\ UNCHANGED <<key, out>>
                ELSE /\ fpc' = "loop"
                     /\ out' = out \o sorted
                     /\ key' = sorted[1].chronologicalKey

\* One turn of the loop of feed: the request, answered by one of responses
\* if it is posted, the stories yielded, the next cursor.
FeedCall(responses) ==
    /\ fpc = "loop"
    /\ Len(fetched) < MaxFetch
    /\ \E resp \in responses :
          \E o \in {request(cache, TOKEN, "feed.query", FeedParams(Bot, key), resp)} :
              /\ cache' = o.cache
              /\ call' = CallRecord(TOKEN, "feed.query", FeedParams(Bot, key),
                                    o, resp)
              /\ posted' = Posted(TOKEN, "feed.query", FeedParams(Bot, key), o)
              /\ FeedTurn(o)
    /\ UNCHANGED TOKEN

\* A turn of the loop of feed, the generator run by itself.
FeedLoop(responses) ==
    /\ FeedCall(responses)
    /\ UNCHANGED <<commvars, outervars>>

FeedStep == FeedLoop(FeedResponses)

NextFeed == StartFeed \/ FeedStep

\* The paginators run under one well-formed and one malformed credential.
InitFeed == Init /\ TOKEN.secret = "a"

SpecFeed == InitFeed /\ [][NextFeed]_vars

\* The consumer of the generator keeps asking for the next story, so a turn
\* of the loop that can run does run.
SpecFeedFair == SpecFeed /\ WF_vars(FeedStep)

----------------------------------------------------------------------------
(* comments *)

\* The number of requests one enumeration of comments makes in the model:
\* one per cursor, and one more.
MaxSearch == MaxAfter + 2

Dev == "PHID-USER-dev"
Authors == {Bot, Dev}

\* The objects whose comments are asked for.
Commented == {ObjectOrder[1]}

\* The transactions of an object: a comment of the bot carrying two comments,
\* a comment of another author, and a transaction of the bot that is not a
\* comment.
Transactions ==
    { [type |-> "comment", authorPHID |-> Bot,
       comments |-> <<[id |-> 1], [id |-> 2]>>],
      [type |-> "comment", authorPHID |-> Dev, comments |-> <<[id |-> 3]>>],
      [type |-> "accept", authorPHID |-> Bot, comments |-> <<[id |-> 4]>>] }

\* The pages of transaction.search: up to two different transactions.
SearchPages ==
    {<<>>} \cup {<<t>> : t \in Transactions}
           \cup {x \in Transactions \X Transactions : x[1] # x[2]}

\* The answers to transaction.search: a transport failure, an error reported
\* by the service, or a page with the cursor of the next page.
SearchResponses ==
    { [status |-> "error", content |-> Bytes(Envelope("null", <<>>, None))],
      [status |-> "ok",
       content |-> Bytes(Envelope("ERR-CONDUIT-CORE", <<>>, None))] }
    \cup
    { [status |-> "ok", content |-> Bytes(Envelope("null", q, c))] :
        q \in SearchPages, c \in {None} \cup (1..MaxAfter) }

\* A filter that keeps a transaction of the wanted type or of the wanted
\* author.
Keep_either(x, author) == x.type = "comment" \/ x.authorPHID = author

\* lambda x: x['type'] == 'comment' and x['authorPHID'] == author_phid
Keep(x, author) == x.type = "comment" /\ x.authorPHID = author

\* filter(lambda, results)
Filter(results, author) == SelectSeq(results, LAMBDA x : Keep(x, author))

\* for tr in transactions: for comment in tr['comments']: yield comment
RECURSIVE Yielded(_)
Yielded(transactions) ==
    IF transactions = <<>> THEN <<>>
    ELSE Head(transactions).comments \o Yielded(Tail(transactions))

\* comments(object_phid, author_phid) is called and runs up to its loop.
StartComments ==
    /\ cpc # "loop"
    /\ cpc' = "loop"
    /\ object_phid' \in Commented
    /\ author_phid' \in Authors
    /\ after' = None
    /\ searched' = <<>>
    /\ emitted' = <<>>
    /\ UNCHANGED <<reqvars, feedvars, outervars>>

\* A turn that goes on after a page whose "after" is None.
CommentsTurn_noend(o) ==
    IF o.kind \notin {"hit", "fetched"}
    THEN /\ cpc' = "failed"
         /\ UNCHANGED <<after, searched, emitted>>
    ELSE \E results \in {o.ret.result.data} :
         \E next \in {o.ret.result.cursor.after} :
             /\ searched' = Append(searched, [after |-> after,
                                              data |-> results,
                                              next |-> next])
             /\ IF results = <<>>
                THEN /\ cpc' = "done"
                     /\ UNCHANGED <<after, emitted>>
                ELSE /\ emitted' =
                           emitted \o Yielded(Filter(results, author_phid))
                     /\ after' = next
                     /\ cpc' = "loop"

\* What one turn of the loop does with the outcome o of its request.
CommentsTurn(o) ==
    IF o.kind \notin {"hit", "fetched"}
    THEN /\ cpc' = "failed"
         /\ UNCHANGED <<after, searched, emitted>>
    ELSE \E results \in {o.ret.result.data} :
         \E next \in {o.ret.result.cursor.after} :
             /\ searched' = Append(searched, [after |-> after,
                                              data |-> results,
                                              next |-> next])
             /\ IF results = <<>>
                THEN /\ cpc' = "done"
                     /\ UNCHANGED <<after, emitted>>
                ELSE /\ emitted' =
                           emitted \o Yielded(Filter(results, author_phid))
                     /\ after' = next
                     /\ cpc' = IF next = None THEN "done" ELSE "loop"

\* One turn of the loop of comments: the request, answered by one of
\* responses if it is posted, the comments yielded, the next cursor.
CommentsLoop(responses) ==
    /\ cpc = "loop"
    /\ Len(searched) < MaxSearch
    /\ \E resp \in responses :
          \E o \in {request(cache, TOKEN, "transaction.search",
                            SearchParams(object_phid, after), resp)} :
              /\ cache' = o.cache
              /\ call' = CallRecord(TOKEN, "transaction.search",
                                    SearchParams(object_phid, after), o, resp)
              /\ posted' = Posted(TOKEN, "transaction.search",
                                  SearchParams(object_phid, after), o)
              /\ CommentsTurn(o)
    /\ UNCHANGED <<TOKEN, feedvars, object_phid, author_phid, outervars>>

CommentsStep == CommentsLoop(SearchResponses)

NextComments == StartComments \/ CommentsStep

SpecComments == InitFeed /\ [][NextComments]_vars

----------------------------------------------------------------------------
(* request, feed and comments on one cache *)

\* A sample of the answers to transaction.search: no transaction, or the
\* bot's comment on a last page or on a page followed by another.
SearchSample ==
    {r \in SearchResponses :
        /\ r.status = "ok"
        /\ JsonLoads(r.content).error_code = "null"
        /\ JsonLoads(r.content).result.cursor.after \in {None, 1}
        /\ \E q \in {JsonLoads(r.content).result.data} :
              \/ q = <<>> /\ JsonLoads(r.content).result.cursor.after = None
              \/ Len(q) = 1 /\ Keep(q[1], Bot)}

\* feed, the service answering as it answers a direct call.
FeedOnCache == FeedLoop(DirectResponses)

\* comments, the service answering from the sample.
CommentsOnCache == CommentsLoop(SearchSample)

InitCache == Init /\ TokenOk(TOKEN) /\ TOKEN.secret = "a"

NextCache ==
    \/ Request
    \/ StartFeed
    \/ FeedOnCache
    \/ StartComments
    \/ CommentsOnCache

SpecCache == InitCache /\ [][NextCache]_vars

----------------------------------------------------------------------------
(* Enumerations run again from scratch *)

\* feed(bot) is called, again if it was called before; how the enumeration
\* before it ended is kept.
AgainFeed ==
    /\ fpc # "loop"
    /\ previous' = [previous EXCEPT !.feed = [pc |-> fpc, out |-> out]]
    /\ fpc' = "loop"
    /\ key' = None
    /\ fetched' = <<>>
    /\ out' = <<>>
    /\ UNCHANGED <<reqvars, commvars, parsevars, mainvars, racevars>>

\* comments(object_phid, author_phid) is called, again if it was called
\* before; how the enumeration before it ended is kept.
AgainComments ==
    /\ cpc # "loop"
    /\ previous' = [previous EXCEPT
                       !.comments = [pc |-> cpc, object |-> object_phid,
                                     author |-> author_phid,
                                     emitted |-> emitted]]
    /\ cpc' = "loop"
    /\ object_phid' \in Commented
    /\ author_phid' \in Authors
    /\ after' = None
    /\ searched' = <<>>
    /\ emitted' = <<>>
    /\ UNCHANGED <<reqvars, feedvars, parsevars, mainvars, racevars>>

NextAgain == AgainFeed \/ FeedOnCache \/ AgainComments \/ CommentsOnCache

SpecAgain == InitCache /\ [][NextAgain]_vars

----------------------------------------------------------------------------
(* Two processes on one cache file *)

\* request seen statement by statement, for two processes that make the same
\* request with a well-formed credential, the service answering each POST
\* with the same successful response of MaxChunks chunks.  disk is the set
\* of chunks the file holds.

Whole == 1..MaxChunks

rest == <<reqvars, feedvars, commvars, parsevars, mainvars, previous>>

Goto(p, at, written) == ppc' = [ppc EXCEPT ![p] = [at |-> at, written |-> written]]

\* The with block is left at any time, written out or not.
Closes_early(written) == written <= MaxChunks

\* with open(cache, 'wb') as f: f.write(resp.content) is left when the
\* content is written out.
Closes(written) == written = MaxChunks

\* The script is started in process p.
Launch(p) ==
    /\ ppc[p].at = "off"
    /\ Goto(p, "idle", 0)
    /\ UNCHANGED <<disk, rest>>

\* Process p calls request and tests os.path.exists(cache).
Exists(p) ==
    /\ ppc[p].at \in {"idle", "returned"}
    /\ Goto(p, IF disk # Absent THEN "load" ELSE "post", 0)
    /\ UNCHANGED <<disk, rest>>

\* json.load(open(cache)): the file as it is now is decoded; a file that
\* lacks a part of the body does not decode.
Load(p) ==
    /\ ppc[p].at = "load"
    /\ Goto(p, IF disk = Whole THEN "returned" ELSE "torn", 0)
    /\ UNCHANGED <<disk, rest>>

\* requests.post, raise_for_status, the check of error_code.
Post(p) ==
    /\ ppc[p].at = "post"
    /\ Goto(p, "open", 0)
    /\ UNCHANGED <<disk, rest>>

\* open(cache, 'wb'): the file is created, or emptied if it exists.
Open(p) ==
    /\ ppc[p].at = "open"
    /\ disk' = {}
    /\ Goto(p, "write", 0)
    /\ UNCHANGED rest

\* The next chunk of the content reaches the file.
Write(p) ==
    /\ ppc[p].at = "write"
    /\ ppc[p].written < MaxChunks
    /\ disk' = disk \cup {ppc[p].written + 1}
    /\ Goto(p, "write", ppc[p].written + 1)
    /\ UNCHANGED rest

\* The file is closed and request returns the decoded response.
Return(p) ==
    /\ ppc[p].at = "write"
    /\ Closes(ppc[p].written)
    /\ Goto(p, "returned", 0)
    /\ UNCHANGED <<disk, rest>>

NextRace ==
    \E p \in Procs :
        \/ Launch(p)
        \/ Exists(p)
        \/ Load(p)
        \/ Post(p)
        \/ Open(p)
        \/ Write(p)
        \/ Return(p)

SpecRace == InitCache /\ [][NextRace]_vars

----------------------------------------------------------------------------
(* parse_comment *)

\* A text is the sequence of its words: the text is the words joined by
\* single spaces, a word has no space in it.

\* The words that are numbers, \d+, and their values.
Digits == <<"1", "2", "3">>
IsNumber(w) == \E n \in DOMAIN Digits : Digits[n] = w
IntOf(w) == CHOOSE n \in DOMAIN Digits : Digits[n] = w

\* The words that 'defects?' matches the start of, and those it matches
\* wholly, so that a space can follow.
StartsWithDefect(w) == w \in {"defect", "defects", "defects."}
IsDefect(w) == w \in {"defect", "defects"}

\* The longest start of a word that [\w\-]+ matches; "" if there is none.
Word(w) ==
    CASE w = "infer." -> "infer"
      [] w = "mozlint." -> "mozlint"
      [] w = "defects." -> "defects"
      [] w = "..." -> ""
      [] OTHER -> w

\* REGEX_TOTAL matches at the i-th word.
TotalAt(comment, i) ==
    /\ i + 2 <= Len(comment)
    /\ comment[i] = "found"
    /\ IsNumber(comment[i + 1])
    /\ StartsWithDefect(comment[i + 2])

\* REGEX_ANALYZER matches at the i-th word.
AnalyzerAt(comment, i) ==
    /\ i + 4 <= Len(comment)
    /\ IsNumber(comment[i])
    /\ IsDefect(comment[i + 1])
    /\ comment[i + 2] = "found"
    /\ comment[i + 3] = "by"
    /\ Word(comment[i + 4]) # ""

\* REGEX_TOTAL.search(comment): the leftmost match, with its group.
TotalSearch(comment) ==
    IF \E i \in DOMAIN comment : TotalAt(comment, i)
    THEN LET i == CHOOSE i \in DOMAIN comment :
                     /\ TotalAt(comment, i)
                     /\ \A j \in 1..(i - 1) : ~TotalAt(comment, j)
         IN  [found |-> TRUE, group1 |-> comment[i + 1]]
    ELSE [found |-> FALSE, group1 |-> ""]

\* REGEX_ANALYZER.findall(comment) from the from-th word on: the matches
\* left to right, each search starting where the match before ended.
RECURSIVE FindAll(_, _)
FindAll(comment, from) ==
    IF \E i \in from..Len(comment) : AnalyzerAt(comment, i)
    THEN LET i == CHOOSE i \in from..Len(comment) :
                     /\ AnalyzerAt(comment, i)
                     /\ \A j \in from..(i - 1) : ~AnalyzerAt(comment, j)
         IN  <<[nb |-> comment[i], name |-> Word(comment[i + 4])]>>
                \o FindAll(comment, i + 5)
    ELSE <<>>

\* A dict in which the first pair of a name stays.
DictOf_first(pairs) ==
    [name \in {pairs[i].name : i \in DOMAIN pairs} |->
        LET i == CHOOSE i \in DOMAIN pairs :
                     /\ pairs[i].name = name
                     /\ \A j \in DOMAIN pairs : pairs[j].name = name => i <= j
        IN  IntOf(pairs[i].nb)]

\* {name: int(nb) for nb, name in pairs}: a later pair of a name replaces an
\* earlier one.
DictOf(pairs) ==
    [name \in {pairs[i].name : i \in DOMAIN pairs} |->
        LET i == CHOOSE i \in DOMAIN pairs :
                     /\ pairs[i].name = name
                     /\ \A j \in DOMAIN pairs : pairs[j].name = name => j <= i
        IN  IntOf(pairs[i].nb)]

\* parse_comment without the assertion: a text without a total has no total.
parse_comment_lenient(comment) ==
    LET total == TotalSearch(comment)
    IN  IF ~total.found
        THEN [status |-> "ok", out |-> DictOf(FindAll(comment, 1))]
        ELSE [status |-> "ok",
              out |-> ("total" :> IntOf(total.group1))
                         @@ DictOf(FindAll(comment, 1))]

\* parse_comment(comment): how the call ends and the dict it returns.
parse_comment(comment) ==
    LET total == TotalSearch(comment)
    IN  IF ~total.found
        THEN [status |-> "error", out |-> [k \in {} |-> 0]]
        ELSE [status |-> "ok",
              out |-> ("total" :> IntOf(total.group1))
                         @@ DictOf(FindAll(comment, 1))]

\* The pieces texts are made of: a total, the count of an analyzer, a count
\* whose analyzer is yet to come, and punctuation.
Segments ==
    { <<"found", "3", "defects.">>, <<"2", "defects", "found", "by">>,
      <<"...">> }
    \cup { <<n, "defects", "found", "by", a>> :
              n \in {"1", "2"}, a \in {"infer", "mozlint."} }

RECURSIVE TextsOf(_)
TextsOf(n) ==
    IF n = 0 THEN {<<>>}
    ELSE LET shorter == TextsOf(n - 1)
         IN  shorter \cup {t \o g : t \in shorter, g \in Segments}

Texts == TextsOf(MaxSegments)

\* parse_comment is called on the text.
Parse ==
    /\ parsed = NotParsed
    /\ parsed' = parse_comment(text)
    /\ UNCHANGED <<reqvars, feedvars, commvars, mainvars, text, previous,
                   racevars>>

InitParse ==
    /\ Loaded
    /\ TokenOk(TOKEN) /\ TOKEN.secret = "a"
    /\ text \in Texts
    /\ parsed = NotParsed

NextParse == Parse

SpecParse == InitParse /\ [][NextParse]_vars

----------------------------------------------------------------------------
(* The script: __main__ *)

FIELDS ==
    {"revision", "comment", "created", "clang-tidy", "clang-format", "infer",
     "mozlint", "total"}

\* The feed the script is answered from: a page of one story, a page of two
\* stories on two objects, the empty page; a transport failure and an error
\* reported by the service.
MainFeedResponses ==
    {r \in FeedResponses :
        \/ r.status = "error"
        \/ JsonLoads(r.content).error_code # "null"
        \/ /\ r.status = "ok"
           /\ JsonLoads(r.content).error_code = "null"
           /\ JsonLoads(r.content).result.data \in
                 { <<>>,
                   <<[chronologicalKey |-> MaxKey, objectPHID |-> ObjectOrder[1]]>>,
                   <<[chronologicalKey |-> 1, objectPHID |-> ObjectOrder[1]],
                     [chronologicalKey |-> 1, objectPHID |-> ObjectOrder[2]]>> }}

\* A comment as transaction.search lists it.
Comment(id, raw) == [id |-> id, dateCreated |-> id, content |-> [raw |-> raw]]

\* Comment texts: one that parses into known fields, one without a total, one
\* that names an analyzer that is no field of the report.
GoodText == <<"found", "3", "defects.", "2", "defects", "found", "by", "infer">>
NoTotalText == <<"2", "defects", "found", "by", "infer">>
OddText == <<"found", "3", "defects.", "1", "defect", "found", "by", "coverity">>

\* The transactions the script is answered from.
GoodComments ==
    [type |-> "comment", authorPHID |-> Bot,
     comments |-> <<Comment(1, GoodText), Comment(2, GoodText)>>]
HalfComments ==
    [type |-> "comment", authorPHID |-> Bot,
     comments |-> <<Comment(3, GoodText), Comment(4, NoTotalText),
                    Comment(5, GoodText)>>]
OddComments ==
    [type |-> "comment", authorPHID |-> Bot,
     comments |-> <<Comment(6, OddText)>>]
DevComments ==
    [type |-> "comment", authorPHID |-> Dev,
     comments |-> <<Comment(7, NoTotalText)>>]

\* The answers to the script's transaction.search: a transport failure, an
\* error reported by the service, or a page.
MainSearchResponses ==
    { [status |-> "error", content |-> Bytes(Envelope("null", <<>>, None))],
      [status |-> "ok",
       content |-> Bytes(Envelope("ERR-CONDUIT-CORE", <<>>, None))] }
    \cup
    { [status |-> "ok", content |-> Bytes(Envelope("null", q[1], q[2]))] :
        q \in { <<<<>>, None>>,
                <<<<GoodComments>>, 1>>,
                <<<<DevComments, GoodComments>>, None>>,
                <<<<HalfComments>>, None>>,
                <<<<OddComments>>, None>> } }

\* A set comprehension that keeps the object of the first story only.
Distinct_first(stories) ==
    {stories[i].objectPHID : i \in DOMAIN stories \cap {1}}

\* {transaction['objectPHID'] for transaction in feed(bot)}
Distinct(stories) == {stories[i].objectPHID : i \in DOMAIN stories}

Range(seq) == {seq[i] : i \in DOMAIN seq}

\* item: the row of a comment, with the stats of its text.
Row(obj_phid, comment) ==
    [revision |-> obj_phid, created |-> comment.dateCreated,
     comment |-> comment.id, stats |-> parse_comment(comment.content.raw).out]

\* The comment raises: parse_comment fails on its text, or writerow finds a
\* key that is no field.
Raises(comment) ==
    \/ parse_comment(comment.content.raw).status = "error"
    \/ ~(DOMAIN parse_comment(comment.content.raw).out \subseteq FIELDS)

\* The first comment of the sequence that raises; 0 if none does.
FirstRaising(cs) ==
    IF \E i \in DOMAIN cs : Raises(cs[i])
    THEN CHOOSE i \in DOMAIN cs :
             Raises(cs[i]) /\ \A j \in 1..(i - 1) : ~Raises(cs[j])
    ELSE 0

RowsOf(obj_phid, cs) == [i \in DOMAIN cs |-> Row(obj_phid, cs[i])]

\* The script starts: feed(bot) is about to be enumerated.
Main ==
    /\ dpc = "idle"
    /\ dpc' = "feed"
    /\ fpc' = "loop"
    /\ key' = None
    /\ fetched' = <<>>
    /\ out' = <<>>
    /\ UNCHANGED <<reqvars, commvars, parsevars, objects, started, rows,
                   previous, racevars>>

\* The set comprehension takes one more page of the feed; at the end of the
\* feed the set is complete and stats.csv is opened and gets its header.
MainFeed ==
    /\ dpc = "feed"
    /\ FeedCall(MainFeedResponses)
    /\ IF fpc' = "done"
       THEN /\ objects' = Distinct(out')
            /\ rows' = <<>>
            /\ dpc' = "comments"
       ELSE /\ dpc' = IF fpc' = "failed" THEN "failed" ELSE dpc
            /\ UNCHANGED <<objects, rows>>
    /\ UNCHANGED <<commvars, parsevars, started, previous, racevars>>

\* for obj_phid in objects: the next object, in any order, and the call of
\* comments for it; after the last object the script ends.
MainNextObject ==
    /\ dpc = "comments"
    /\ cpc # "loop"
    /\ IF objects \ Range(started) = {}
       THEN /\ dpc' = "done"
            /\ UNCHANGED <<commvars, started>>
       ELSE /\ \E obj_phid \in objects \ Range(started) :
                  /\ started' = Append(started, obj_phid)
                  /\ object_phid' = obj_phid
            /\ author_phid' = Bot
            /\ cpc' = "loop"
            /\ after' = None
            /\ searched' = <<>>
            /\ emitted' = <<>>
            /\ UNCHANGED dpc
    /\ UNCHANGED <<reqvars, feedvars, parsevars, objects, rows, previous,
                   racevars>>

\* A script that passes over a comment that raises and goes on.
MainTurn_skip(o) ==
    IF o.kind \notin {"hit", "fetched"}
    THEN /\ dpc' = "failed"
         /\ cpc' = "failed"
         /\ UNCHANGED <<after, searched, emitted, rows, parsevars>>
    ELSE \E results \in {o.ret.result.data} :
         \E next \in {o.ret.result.cursor.after} :
         \E wanted \in {Yielded(Filter(results, author_phid))} :
             /\ searched' = Append(searched, [after |-> after,
                                              data |-> results,
                                              next |-> next])
             /\ IF results = <<>>
                THEN /\ cpc' = "done"
                     /\ UNCHANGED <<after, emitted, rows, parsevars, dpc>>
                ELSE /\ emitted' = emitted \o wanted
                     /\ rows' = rows \o RowsOf(object_phid,
                                   SelectSeq(wanted, LAMBDA c : ~Raises(c)))
                     /\ IF wanted = <<>>
                        THEN UNCHANGED parsevars
                        ELSE /\ text' = wanted[Len(wanted)].content.raw
                             /\ parsed' = parse_comment(
                                   IF FirstRaising(wanted) = 0
                                   THEN wanted[Len(wanted)].content.raw
                                   ELSE wanted[FirstRaising(wanted)].content.raw)
                     /\ after' = next
                     /\ cpc' = IF next = None THEN "done" ELSE "loop"
                     /\ UNCHANGED dpc

\* What the script does with the outcome o of the request of one turn of
\* comments: each comment of the page is parsed and written as soon as it is
\* yielded; the first comment that raises ends the script.
MainTurn(o) ==
    IF o.kind \notin {"hit", "fetched"}
    THEN /\ dpc' = "failed"
         /\ cpc' = "failed"
         /\ UNCHANGED <<after, searched, emitted, rows, parsevars>>
    ELSE \E results \in {o.ret.result.data} :
         \E next \in {o.ret.result.cursor.after} :
         \E wanted \in {Yielded(Filter(results, author_phid))} :
         \E bad \in {FirstRaising(wanted)} :
             /\ searched' = Append(searched, [after |-> after,
                                              data |-> results,
                                              next |-> next])
             /\ IF results = <<>>
                THEN /\ cpc' = "done"
                     /\ UNCHANGED <<after, emitted, rows, parsevars, dpc>>
                ELSE IF bad = 0
                THEN /\ emitted' = emitted \o wanted
                     /\ rows' = rows \o RowsOf(object_phid, wanted)
                     /\ IF wanted = <<>>
                        THEN UNCHANGED parsevars
                        ELSE /\ text' = wanted[Len(wanted)].content.raw
                             /\ parsed' = parse_comment(
                                             wanted[Len(wanted)].content.raw)
                     /\ after' = next
                     /\ cpc' = IF next = None THEN "done" ELSE "loop"
                     /\ UNCHANGED dpc
                ELSE /\ emitted' = emitted \o SubSeq(wanted, 1, bad)
                     /\ rows' = rows \o RowsOf(object_phid,
                                               SubSeq(wanted, 1, bad - 1))
                     /\ text' = wanted[bad].content.raw
                     /\ parsed' = parse_comment(wanted[bad].content.raw)
                     /\ dpc' = "failed"
                     /\ UNCHANGED <<after, cpc>>

\* One turn of the loop of comments run by the script, with the rows written
\* for the comments of the page.
MainComments ==
    /\ dpc = "comments"
    /\ cpc = "loop"
    /\ Len(searched) < MaxSearch
    /\ \E resp \in MainSearchResponses :
          \E o \in {request(cache, TOKEN, "transaction.search",
                            SearchParams(object_phid, after), resp)} :
              /\ cache' = o.cache
              /\ call' = CallRecord(TOKEN, "transaction.search",
                                    SearchParams(object_phid, after), o, resp)
              /\ posted' = Posted(TOKEN, "transaction.search",
                                  SearchParams(object_phid, after), o)
              /\ MainTurn(o)
    /\ UNCHANGED <<TOKEN, feedvars, object_phid, author_phid, objects, started,
                   previous, racevars>>

NextMain == Main \/ MainFeed \/ MainNextObject \/ MainComments

SpecMain == InitFeed /\ [][NextMain]_vars

----------------------------------------------------------------------------
(* Claims about request *)

\* The cache file and the request of a recorded call.
CallPath(c) == CachePath(c.method, WithConduit(c.params, c.token))
CallLogical(c) == Logical(c.method, c.params, c.token)
BadAnswer(resp) ==
    \/ resp.status = "error"
    \/ resp.status = "ok" /\ JsonLoads(resp.content).error_code # "null"

\* C1: a call of request whose cache file exists returns what json decodes
\* from that file, makes no POST, and leaves the cache directory as it was.
C1_HitServedFromCache ==
    [][ (call' # call /\ CallPath(call') \in DOMAIN cache)
          => /\ call'.kind = "hit"
             /\ call'.ret = JsonLoads(cache[CallPath(call')])
             /\ call'.posts = 0
             /\ cache' = cache ]_vars

C1_Witness ==
    /\ call.kind = "hit"
    /\ call.posts = 0
    /\ call.ret.result.data # <<>>

\* C2: a call that misses the cache and whose POST is answered by a failed
\* transport status, or by an envelope with an error code, raises: it returns
\* nothing, it made exactly one POST, and the cache directory is as before.
C2_FailedFetchLeavesCache ==
    [][ (call' # call /\ CallPath(call') \notin DOMAIN cache
                      /\ BadAnswer(call'.resp))
          => /\ call'.kind \in {"http_error", "remote_error"}
             /\ call'.ret = NoResult
             /\ call'.posts = 1
             /\ cache' = cache ]_vars

C2_Witness ==
    /\ call.kind = "remote_error"
    /\ call.posts = 1
    /\ DOMAIN cache # {}

\* C3: a call that misses the cache and is answered successfully leaves the
\* raw response in its cache file; every later call for the same endpoint,
\* parameter values and token returns the result of that first call and makes
\* no POST; no request is ever POSTed successfully twice.
C3_State ==
    /\ \A r \in DOMAIN posted :
          /\ Len(posted[r]) = 1
          /\ posted[r][1].path \in DOMAIN cache
          /\ JsonLoads(cache[posted[r][1].path]) = posted[r][1].ret
    /\ call.kind = "fetched" =>
          /\ CallPath(call) \in DOMAIN cache
          /\ cache[CallPath(call)] = call.resp.content
          /\ call.ret = JsonLoads(call.resp.content)
    /\ call.kind \in {"fetched", "hit"} =>
          /\ CallLogical(call) \in DOMAIN posted
          /\ call.ret = posted[CallLogical(call)][1].ret

C3_Step ==
    (call' # call /\ CallLogical(call') \in DOMAIN posted)
       => /\ call'.posts = 0
          /\ call'.kind = "hit"
          /\ call'.ret = posted[CallLogical(call')][1].ret

C3_FetchedOnceThenCached == []C3_State /\ [][C3_Step]_vars

C3_Witness ==
    /\ call.kind = "hit"
    /\ call.params = Reverse(FeedParams(Bot, 1))
    /\ call.ret.result.data # <<>>
    /\ Cardinality(DOMAIN posted) > 2

\* C5: the cache file of a call is the file an earlier call saved exactly
\* when the two calls have the same endpoint, the same parameter values
\* (whatever the order of the keyword arguments) and the same token; so a hit
\* returns a response that was fetched for this very request.
C5_FingerprintIsTheRequest ==
    (call.kind # "none" /\ TokenOk(call.token)) =>
       /\ \A r \in DOMAIN posted : \A i \in DOMAIN posted[r] :
             (posted[r][i].path = CallPath(call)) <=> (r = CallLogical(call))
       /\ call.kind = "hit" =>
             /\ CallLogical(call) \in DOMAIN posted
             /\ \E i \in DOMAIN posted[CallLogical(call)] :
                   posted[CallLogical(call)][i].ret = call.ret

C5_Witness ==
    /\ call.kind = "hit"
    /\ call.params = Reverse(FeedParams(Bot, None))
    /\ \E r \in DOMAIN posted : r.token # call.token
    /\ \E r \in DOMAIN posted : r.method # call.method
    /\ \E r \in DOMAIN posted :
          /\ r.method = call.method /\ r.token = call.token
          /\ r.values # CallLogical(call).values

----------------------------------------------------------------------------
(* Claims about the cache *)

\* C4: a cache file, once written, stays as it is: no call of request, no
\* turn of feed and no turn of comments removes it or changes its content,
\* whatever the service answers.
C4_EntriesNeverChange ==
    [][\A h \in DOMAIN cache : h \in DOMAIN cache' /\ cache'[h] = cache[h]]_vars

C4_Witness ==
    /\ call.kind = "hit"
    /\ \E h \in DOMAIN cache : h # CallPath(call)
    /\ fetched # <<>>
    /\ searched # <<>>
    /\ \E n \in DOMAIN searched :
          CachePath("transaction.search",
                    WithConduit(SearchParams(object_phid, searched[n].after),
                                TOKEN)) \in DOMAIN cache

----------------------------------------------------------------------------
(* Claims about feed *)

KeysOf(results) == {results[i].chronologicalKey : i \in DOMAIN results}
MinKey(results) == CHOOSE k \in KeysOf(results) : \A l \in KeysOf(results) : k <= l

\* The number of stories on the pages before the n-th page of the enumeration.
RECURSIVE PageStart(_)
PageStart(n) ==
    IF n = 1 THEN 0 ELSE PageStart(n - 1) + Len(fetched[n - 1].results)

\* C6 as claimed: the stories yielded by one enumeration are in non-decreasing
\* order of chronological key over the whole sequence, across all pages.
C6_SortedAcrossPages ==
    \A i, j \in DOMAIN out :
        i < j => out[i].chronologicalKey <= out[j].chronologicalKey

\* C6 as amended: the stories of each page are yielded together, in
\* non-decreasing order of chronological key within the page, the pages in the
\* order they were fetched.
C6_SortedWithinPage ==
    /\ Len(out) = PageStart(Len(fetched) + 1)
    /\ \A n \in DOMAIN fetched :
          LET page == fetched[n].results
              at(i) == out[PageStart(n) + i]
          IN  /\ {at(i) : i \in DOMAIN page} = {page[i] : i \in DOMAIN page}
              /\ \A i, j \in DOMAIN page :
                    i < j => at(i).chronologicalKey <= at(j).chronologicalKey

C6_Witness ==
    /\ Len(fetched) >= 2
    /\ \E n \in DOMAIN fetched : Cardinality(KeysOf(fetched[n].results)) = 2
    /\ \E i, j \in DOMAIN out :
          i < j /\ out[i].chronologicalKey > out[j].chronologicalKey

\* The cursors sent after the first request shrink strictly.
ShrinkingCursors ==
    \A n \in DOMAIN fetched :
        (n > 2) => fetched[n].after < fetched[n - 1].after

\* Every page holds stories of pairwise different keys, all older than the
\* cursor the page was requested with.
PagesOlderThanCursor ==
    \A n \in DOMAIN fetched :
        LET page == fetched[n].results
        IN  /\ Cardinality(KeysOf(page)) = Len(page)
            /\ fetched[n].after # None =>
                  \A k \in KeysOf(page) : k < fetched[n].after

NoKeyYieldedTwice ==
    \A i, j \in DOMAIN out :
        i # j => out[i].chronologicalKey # out[j].chronologicalKey

\* C7 as claimed: in an enumeration whose successive cursors shrink strictly,
\* no story is yielded whose chronological key was yielded before.
C7_NoRepeatUnderShrinkingCursors == ShrinkingCursors => NoKeyYieldedTwice

\* C7 as amended: in an enumeration whose pages each hold stories of pairwise
\* different keys, all strictly smaller than the cursor the page was requested
\* with, no story is yielded whose chronological key was yielded before.
C7_NoRepeatUnderOlderPages == PagesOlderThanCursor => NoKeyYieldedTwice

C7_Witness ==
    /\ PagesOlderThanCursor
    /\ Len(out) >= 2
    /\ \E n \in DOMAIN fetched : n > 1 /\ fetched[n].results # <<>>

\* Every non-empty page requested with a cursor has a smallest key strictly
\* smaller than that cursor.
Advancing ==
    \A n \in DOMAIN fetched :
        (fetched[n].results # <<>> /\ fetched[n].after # None)
           => MinKey(fetched[n].results) < fetched[n].after

\* C8: an enumeration whose non-empty pages all advance the cursor, and none
\* of whose requests fails, ends: it receives an empty page; the first empty
\* page is the last page, and once it is received no request is made and no
\* story is yielded until feed is called anew.
C8_EndsOnFirstEmptyPage ==
    /\ [](fpc = "loop" => <>(fpc = "done" \/ fpc = "failed" \/ ~Advancing))
    /\ [](\A n \in DOMAIN fetched :
             fetched[n].results = <<>> <=> (n = Len(fetched) /\ fpc = "done"))
    /\ [][fpc = "done" =>
             \/ UNCHANGED <<call, cache, fetched, out, fpc>>
             \/ fetched' = <<>> /\ out' = <<>> /\ UNCHANGED <<call, cache>>]_vars

C8_Witness ==
    /\ fpc = "done"
    /\ Advancing
    /\ Len(fetched) = 3
    /\ Len(out) >= 3

\* A page that does not advance: it is not empty and its smallest key is the
\* cursor it was requested with.
Stalled(n) ==
    /\ fetched[n].results # <<>>
    /\ MinKey(fetched[n].results) = fetched[n].after

\* C9: after a non-empty page whose smallest key is the cursor it was
\* requested with, feed stops with an error and does not send the same
\* request again.
C9_StopsOnStalledPage ==
    \A n \in DOMAIN fetched :
        Stalled(n) => (n = Len(fetched) /\ fpc = "failed")

----------------------------------------------------------------------------
(* Claims about comments *)

\* The i-th transaction of the n-th page is a comment of the wanted author.
Wanted(n, i) ==
    /\ searched[n].data[i].type = "comment"
    /\ searched[n].data[i].authorPHID = author_phid

\* The places <<page, transaction, comment>> of the comments attached to the
\* wanted transactions of the pages received.
Slots ==
    UNION {UNION {{<<n, i, j>> : j \in DOMAIN searched[n].data[i].comments} :
                     i \in {i \in DOMAIN searched[n].data : Wanted(n, i)}} :
              n \in DOMAIN searched}

\* Page order, then the order of the transactions of a page, then the order
\* of the comments of a transaction.
Before(s, t) ==
    \/ s[1] < t[1]
    \/ s[1] = t[1] /\ s[2] < t[2]
    \/ s[1] = t[1] /\ s[2] = t[2] /\ s[3] < t[3]

Rank(s) == 1 + Cardinality({t \in Slots : Before(t, s)})

\* C10: the comments yielded by comments(object, author) are the comments
\* attached to the transactions of the received pages that have type
\* "comment" and the wanted author, each yielded once, in page order, then
\* transaction order, then the transaction's own comment order; nothing else
\* is yielded.
C10_YieldsWantedCommentsInOrder ==
    /\ Len(emitted) = Cardinality(Slots)
    /\ \A s \in Slots :
          emitted[Rank(s)] = searched[s[1]].data[s[2]].comments[s[3]]

C10_Witness ==
    /\ Len(searched) >= 2
    /\ Len(emitted) >= 3
    /\ \E n \in DOMAIN searched : \E i \in DOMAIN searched[n].data :
          /\ searched[n].data[i].type = "comment"
          /\ searched[n].data[i].authorPHID # author_phid
    /\ \E n \in DOMAIN searched : \E i \in DOMAIN searched[n].data :
          /\ searched[n].data[i].type # "comment"
          /\ searched[n].data[i].authorPHID = author_phid

\* The n-th page is the last page of an enumeration that has ended.
LastOfEnded(n) == n = Len(searched) /\ cpc = "done"

\* C11 as claimed: an enumeration of comments ends exactly when the "after"
\* of a page is None: it ends after such a page, empty or not, and it does
\* not end after a page whose "after" is not None.
C11_EndsExactlyOnNullCursor ==
    \A n \in DOMAIN searched : searched[n].next = None <=> LastOfEnded(n)

\* C11 as amended: an enumeration of comments ends exactly when a page is
\* empty or its "after" is None: it ends after a page whose "after" is None
\* even if the page is not empty, it ends after an empty page whatever its
\* "after", and after a non-empty page whose "after" is not None it goes on
\* and requests the page after that cursor; once ended, it makes no request
\* and yields nothing until comments is called anew.
C11_EndsOnNullCursorOrEmptyPage ==
    /\ [](\A n \in DOMAIN searched :
             /\ (searched[n].data = <<>> \/ searched[n].next = None)
                   <=> LastOfEnded(n)
             /\ n > 1 => searched[n].after = searched[n - 1].next
             /\ (n = Len(searched) /\ cpc = "loop") => after = searched[n].next)
    /\ [][cpc = "done" =>
             \/ UNCHANGED <<searched, emitted, cpc>>
             \/ searched' = <<>> /\ emitted' = <<>> /\ UNCHANGED <<call, cache>>]_vars

C11_Witness ==
    /\ cpc = "done"
    /\ Len(searched) >= 2
    /\ searched[Len(searched)].data # <<>>
    /\ searched[Len(searched)].next = None
    /\ searched[1].next # None

----------------------------------------------------------------------------
(* Claims about parse_comment *)

ParseOk == parsed.status = "ok"

\* The places in the text where a phrase "<N> defect(s) found by <a>" starts.
PhrasesFor(a) ==
    {i \in DOMAIN text : AnalyzerAt(text, i) /\ Word(text[i + 4]) = a}

\* C12: parse_comment fails and returns nothing for a text without a phrase
\* "found N defect(s)"; for a text with one, the result has the key total,
\* and any other key of the result is the analyzer of a phrase
\* "<N> defect(s) found by <analyzer>" of the text.
C12_TotalRequiredKeysFromPhrases ==
    parsed # NotParsed =>
        IF \E i \in DOMAIN text : TotalAt(text, i)
        THEN /\ ParseOk
             /\ "total" \in DOMAIN parsed.out
             /\ \A k \in DOMAIN parsed.out \ {"total"} : PhrasesFor(k) # {}
        ELSE /\ parsed.status = "error"
             /\ DOMAIN parsed.out = {}

C12_Witness ==
    /\ ParseOk
    /\ DOMAIN parsed.out = {"total", "infer"}
    /\ \E i \in DOMAIN text : text[i] = "..."

Analyzers == {Word(text[i]) : i \in DOMAIN text}
LastOf(P) == CHOOSE i \in P : \A j \in P : j <= i

\* C13 as claimed: when the text holds several phrases for one analyzer, the
\* result has for that analyzer the count of the last of them in the text.
C13_LastPhraseWins ==
    ParseOk =>
        \A a \in Analyzers :
            Cardinality(PhrasesFor(a)) >= 2 =>
                /\ a \in DOMAIN parsed.out
                /\ parsed.out[a] = IntOf(text[LastOf(PhrasesFor(a))])

\* A phrase is matched unless its number is the analyzer name of a matched
\* phrase that starts four words before it.
RECURSIVE Matched(_)
Matched(i) ==
    /\ AnalyzerAt(text, i)
    /\ ~(i > 4 /\ Matched(i - 4))

MatchedFor(a) == {i \in PhrasesFor(a) : Matched(i)}

\* C13 as amended: when the text holds several phrases for one analyzer that
\* are matched, the phrases being matched from left to right without overlap
\* (a phrase whose number serves as the analyzer name of the matched phrase
\* before it is passed over), the result has for that analyzer the count of
\* the last matched one; the counts are not added up and the first does not
\* stay.
C13_LastMatchedPhraseWins ==
    ParseOk =>
        \A a \in Analyzers :
            Cardinality(MatchedFor(a)) >= 2 =>
                /\ a \in DOMAIN parsed.out
                /\ parsed.out[a] = IntOf(text[LastOf(MatchedFor(a))])

C13_Witness ==
    /\ ParseOk
    /\ \E a \in Analyzers :
          /\ Cardinality(MatchedFor(a)) >= 2
          /\ \E i \in MatchedFor(a) :
                IntOf(text[i]) > IntOf(text[LastOf(MatchedFor(a))])

----------------------------------------------------------------------------
(* Claims about the script *)

\* C14: in a run of the script, a call of request that fails (malformed
\* credential, transport failure, error code of the service) and a comment
\* that does not parse end the run in the same step; the rows written are
\* rows of comments that parsed; after the failure no request is made and no
\* row is written.
C14_ErrorsEndTheRun ==
    /\ [](call.kind \in {"bad_token", "http_error", "remote_error"}
             => dpc = "failed")
    /\ [](parsed.status = "error" => dpc = "failed")
    /\ [](\A i \in DOMAIN rows : "total" \in DOMAIN rows[i].stats)
    /\ [][dpc = "failed" => UNCHANGED <<call, cache, posted, rows, dpc>>]_vars
    /\ [][dpc' = "failed" /\ dpc # "failed" =>
             \/ call'.kind \in {"bad_token", "http_error", "remote_error"}
             \/ text' # <<>> /\ Raises(Comment(0, text'))]_vars

C14_Witness ==
    /\ dpc = "failed"
    /\ parsed.status = "error"
    /\ rows # <<>>
    /\ Len(emitted) > Len(rows)

\* The comments yielded in a step: those added to emitted, all of emitted if
\* the enumeration is a new one.
NewlyEmitted ==
    IF started' = started /\ Len(emitted') >= Len(emitted)
    THEN SubSeq(emitted', Len(emitted) + 1, Len(emitted'))
    ELSE emitted'

\* C19: the script enumerates the feed to its end before it makes any
\* transaction.search request; it calls comments once for each distinct
\* object of the feed's stories, however many stories the object has; and in
\* every step that does not fail it writes one row for each comment that
\* comments yields, in order.
C19_FeedThenOncePerObjectRowPerComment ==
    /\ []((call.method = "transaction.search" \/ started # <<>>)
             => /\ fpc = "done"
                /\ \A i \in DOMAIN out : out[i].objectPHID \in objects
                /\ \A o \in objects :
                      \E i \in DOMAIN out : out[i].objectPHID = o)
    /\ [](/\ Cardinality(Range(started)) = Len(started)
          /\ Range(started) \subseteq objects
          /\ dpc = "done" =>
                /\ Range(started) = objects
                /\ \A i \in DOMAIN out : out[i].objectPHID \in Range(started))
    /\ [][dpc' # "failed" =>
             /\ Len(rows') = Len(rows) + Len(NewlyEmitted)
             /\ \A i \in DOMAIN NewlyEmitted :
                   /\ rows'[Len(rows) + i].comment = NewlyEmitted[i].id
                   /\ rows'[Len(rows) + i].revision = object_phid']_vars

C19_Witness ==
    /\ dpc = "done"
    /\ Len(started) = 2
    /\ Len(out) > Len(started)
    /\ Len(rows) >= 3

----------------------------------------------------------------------------
(* Claims about feed served from a finite feed *)

\* The page a service holding the stories F answers a cursor with: the
\* newest PageLimit stories among those strictly older than the cursor.
Older(F, cursor) ==
    {st \in F : cursor = None \/ st.chronologicalKey < cursor}

ServedPage(F, cursor) ==
    LET listed == NewestFirst(Older(F, cursor))
    IN  SubSeq(listed, 1, IF Len(listed) < PageLimit
                          THEN Len(listed) ELSE PageLimit)

\* Every page of the enumeration is the page such a service answers with.
ServedFrom(F) ==
    \A n \in DOMAIN fetched :
        fetched[n].results = ServedPage(F, fetched[n].after)

\* C15: when the pages come from a finite feed listed newest first, each
\* page holding the stories strictly older than its cursor, an enumeration
\* that has ended has yielded every story of the feed, also when stories
\* share a chronological key.
C15_YieldsWholeFeed ==
    \A F \in SUBSET Stories :
        (fpc = "done" /\ ServedFrom(F)) =>
            {out[i] : i \in DOMAIN out} = F

----------------------------------------------------------------------------
(* Claims about the credential *)

\* C16: under a credential that does not start with 'api-', a call of request
\* fails before the cache is looked at and before any POST, also when the
\* cache holds a file under the name of that request; the cache stays as it
\* is.
C16_BadTokenFailsFirst ==
    [][(~TokenOk(TOKEN) /\ call' # call) =>
          /\ call'.kind = "bad_token"
          /\ call'.ret = NoResult
          /\ call'.posts = 0
          /\ cache' = cache]_vars

C16_Witness ==
    /\ ~TokenOk(TOKEN)
    /\ call.kind = "bad_token"
    /\ call.token = TOKEN
    /\ CallPath(call) \in DOMAIN cache

----------------------------------------------------------------------------
(* Claims about enumerations run again *)

\* The enumeration of comments before this one ended without error and had
\* the arguments of this one.
SameCommentsEnded ==
    /\ previous.comments.pc = "done"
    /\ previous.comments.object = object_phid
    /\ previous.comments.author = author_phid

\* C17: when an enumeration of feed, or of comments, has ended without
\* error and is run again from scratch with the same arguments and
\* credential, every request of the second run, the one for the last page
\* included, is answered from the cache without a POST, the second run does
\* not fail, and it ends having yielded what the first yielded.
C17_SecondRunFromCache ==
    /\ [](previous.feed.pc = "done" =>
             /\ fpc # "failed"
             /\ fpc = "done" => out = previous.feed.out)
    /\ [](SameCommentsEnded =>
             /\ cpc # "failed"
             /\ cpc = "done" => emitted = previous.comments.emitted)
    /\ [][(previous.feed.pc = "done" /\ fetched' # fetched /\ fetched' # <<>>)
             => (call'.kind = "hit" /\ call'.posts = 0 /\ cache' = cache)]_vars
    /\ [][(SameCommentsEnded /\ searched' # searched /\ searched' # <<>>)
             => (call'.kind = "hit" /\ call'.posts = 0 /\ cache' = cache)]_vars

C17_Witness ==
    /\ previous.feed.pc = "done"
    /\ fpc = "done"
    /\ out # <<>>
    /\ SameCommentsEnded
    /\ cpc = "done"
    /\ emitted # <<>>
    /\ Len(searched) >= 2

----------------------------------------------------------------------------
(* Claims about two processes *)

\* C18: two processes that share the cache directory and make the same
\* request can interleave so that one finds the cache file and reads it
\* before the other has written the whole body (the state of C18_Witness);
\* a process reads such a file only while the other process is between
\* opening the file and closing it, and as long as one process alone makes
\* calls, one after another, no such read happens.
C18_TornReadNeedsTwoProcesses ==
    /\ [][\A p \in Procs :
             (ppc'[p].at = "torn" /\ ppc[p].at # "torn") =>
                 /\ disk # Whole
                 /\ \E q \in Procs \ {p} : ppc[q].at = "write"]_vars
    /\ []((\E q \in Procs : ppc[q].at = "off") =>
             \A p \in Procs : ppc[p].at # "torn")

C18_Witness ==
    \E p \in Procs : \E q \in Procs \ {p} :
        /\ ppc[p].at = "torn"
        /\ ppc[q].at = "write"
        /\ disk # Whole

----------------------------------------------------------------------------
(* Claims about what the cache holds *)

\* C20: from an empty cache and with one process making the calls, direct
\* ones and those of feed and of comments, every cache file holds the whole
\* body of a response that a POST of that very request was answered with and
\* whose error code is null; so a call served from the cache, which does not
\* look at the error code, never returns the response of a remote error.
C20_EntriesAreSuccessfulResponses ==
    /\ \A h \in DOMAIN cache :
          /\ JsonLoads(cache[h]).error_code = "null"
          /\ cache[h] = Bytes(JsonLoads(cache[h]))
          /\ \E r \in DOMAIN posted : \E i \in DOMAIN posted[r] :
                /\ posted[r][i].path = h
                /\ posted[r][i].ret = JsonLoads(cache[h])
    /\ call.kind = "hit" =>
          /\ call.ret = JsonLoads(cache[CallPath(call)])
          /\ call.ret.error_code = "null"

C20_Witness ==
    /\ call.kind = "hit"
    /\ call.posts = 0
    /\ call.ret.result.data # <<>>
    /\ Cardinality(DOMAIN cache) >= 2
    /\ fpc = "failed"

====
